---- MODULE Spec2Model ----
(***************************************************************************)
(* A model of grunner's orchestration loop (src/main.go, model.Update),     *)
(* its scheduler (src/executors.go, tryStartExecutors) and the commands it  *)
(* launches (makeDependencies, buildTestCase, runTestCase).                 *)
(*                                                                         *)
(* A command (tea.Cmd) runs in its own goroutine and hands back one         *)
(* message, which Update consumes; messages are consumed one at a time, in  *)
(* any order.  The completion of makeDependencies, buildTestCase and        *)
(* runTestCase and the processing of their message are one step each: these *)
(* commands read only the copy of the test they were given at launch.       *)
(* tryStartExecutors reads the live test slice (the model value it was      *)
(* given shares the slice's backing array with the loop), so it is split in *)
(* the two passes of its code, and its message waits in msgs until Update   *)
(* takes it.  The one file the commands share, a test's .diff file, is      *)
(* removed in the step that launches the build and written in the step of   *)
(* the run that ends with a difference.  The filter of runTestCase is a      *)
(* function of the captured output alone and has its own specification.     *)
(***************************************************************************)
EXTENDS Integers, Sequences, FiniteSets, Bags, TLC

\* ---------------------------------------------------------------- bounds
MaxTests == 3      \* tests of a scheduling configuration
MaxThreads == 2    \* largest maxThreads
MaxIter == 3       \* largest iteration count
MaxDur == 2        \* largest duration of one iteration
MaxCap == 1        \* largest time cap
MaxLen == 8        \* longest captured output, in characters

VARIABLES
    testCases,   \* model.testCases: id -> testInfo
    maxThreads,  \* model.maxThreads
    timeCap,     \* model.timeCap
    numIter,     \* the configured iteration count (initialModel's iterations)
    earlyExit,   \* the configured early-exit-on-failure option
    quitting,    \* model.quitting
    err,         \* model.err
    cancelled,   \* whether model.cancelCtx() has been called
    env,         \* what the build tool, the runs and the user can do in this run
    cmds,        \* commands in flight (a bag)
    msgs,        \* buildTestMsg values computed and not yet processed (a bag)
    exited,      \* the program has ended (tea.Quit processed, or os.Exit)
    panicked,    \* a run command has panicked and handed back no message
    diffFile,    \* the tests whose .diff file exists where runTestCase writes it
    output,      \* runTestCase's output: the text captured on stdout
    lines,       \* runTestCase's lines: output split at the newlines
    newOutput    \* runTestCase's newOutput: the filtered output

vars == <<testCases, maxThreads, timeCap, numIter, earlyExit, quitting, err, cancelled,
          env, cmds, msgs, exited, panicked, diffFile, output, lines, newOutput>>

config == <<maxThreads, timeCap, numIter, earlyExit, env>>

\* The variables of runTestCase's filter.
capture == <<output, lines, newOutput>>

\* The ids of the tests: the indices of model.testCases.
Tests == DOMAIN testCases
NumTests == Cardinality(Tests)

\* ---------------------------------------------------------------- TestState
TestStateWaiting == "Waiting"
TestStateBuilding == "Building"
TestStateCompileFailure == "CompileFailure"
TestStateRunning == "Running"
TestStateSuccess == "Success"
TestStateFailure == "Failure"

\* The failing verdicts of a run, by the error runTestCase returns.
FailKinds ==
    {"Timeout", "LaunchFailure", "EmptyOutput", "Crash", "DiffMismatch", "Unimplemented"}

\* One entry of testInfo.iterations.  started stands for startTime being set.
NewIteration == [passed |-> FALSE, started |-> FALSE, timeSpanned |-> 0]

\* initialModel: a test as created at startup, with n iterations.
NewTest(n) ==
    [state |-> TestStateWaiting, running |-> FALSE, resolved |-> FALSE,
     iterations |-> [k \in 1 .. n |-> NewIteration], currIter |-> 0, err |-> "nil"]

\* ---------------------------------------------------------------- helpers
RECURSIVE SumDur(_)
SumDur(its) ==
    IF its = <<>> THEN 0 ELSE Head(its).timeSpanned + SumDur(Tail(its))

\* testInfo.TimeElapsed
TimeElapsed(t) == SumDur(t.iterations)

\* testInfo.CountPassed
CountPassed(t) == Cardinality({k \in DOMAIN t.iterations : t.iterations[k].passed})

RunningCount(tc) == Cardinality({i \in DOMAIN tc : tc[i].running})

AllResolved(tc) == \A i \in DOMAIN tc : tc[i].resolved

One(c) == SetToBag({c})

DepsCmd == [kind |-> "deps"]
QuitCmd == [kind |-> "quit"]
SchedCmd == [kind |-> "sched", pc |-> "count", threadsLeft |-> 0]
BuildCmd(i) == [kind |-> "build", id |-> i]
\* runTestCase is given a copy of the test: the copy's resolved flag and
\* iteration index are those at launch.
RunCmd(i, t) == [kind |-> "run", id |-> i, resolved |-> t.resolved, currIter |-> t.currIter]

\* ---------------------------------------------------------------- runTestCase
\* What one run of the emulator and of diff did, as runTestCase observes it:
\*   start          "ok", or the .raw file could not be created ("createErr"),
\*                  the context was done when qemu was started ("ctxDone"),
\*                  or qemu could not be started ("startErr")
\*   io             "ok", or the one write that failed: copying stdout to the
\*                  .raw file ("copyErr"), the .out file ("outErr"), the .diff
\*                  file ("diffErr")
\*   rawLength      bytes captured on stdout (0, or 1 for any positive count)
\*   deadline       ctx.Err() is set after qemu ended
\*   wait           what qemuCmd.Wait returned: nil (exit code 0), an ExitError
\*                  with code 1 ("exit1") or another code ("exitOther"), or an
\*                  error that is no ExitError ("error")
\*   stderrLen      bytes captured on stderr (0, or 1 for any positive count)
\*   diff           diff exited 0 ("same") or not ("differ")
\*   rawHasMissing  the raw output contains "*** Missing code at"
\*   outHasMissing  the filtered output (the .out file) contains that marker
\*   rawHasFail     the raw output contains "fail"
Outcomes ==
    [start : {"ok", "createErr", "ctxDone", "startErr"},
     io : {"ok", "copyErr", "outErr", "diffErr"},
     rawLength : 0 .. 1,
     deadline : BOOLEAN,
     wait : {"nil", "exit1", "exitOther", "error"},
     stderrLen : 0 .. 1,
     diff : {"same", "differ"},
     rawHasMissing : BOOLEAN,
     outHasMissing : BOOLEAN,
     rawHasFail : BOOLEAN]

\* A run that started, printed, ended by the exit device with code 1 in time,
\* wrote nothing to stderr and whose filtered output equals the .ok file.
CleanRun ==
    [start |-> "ok", io |-> "ok", rawLength |-> 1, deadline |-> FALSE, wait |-> "exit1",
     stderrLen |-> 0, diff |-> "same", rawHasMissing |-> FALSE, outHasMissing |-> FALSE,
     rawHasFail |-> FALSE]

\* One outcome for each of the six failing verdicts, and the clean run.
SomeOutcomes ==
    {CleanRun,
     [CleanRun EXCEPT !.deadline = TRUE],
     [CleanRun EXCEPT !.start = "startErr"],
     [CleanRun EXCEPT !.rawLength = 0],
     [CleanRun EXCEPT !.wait = "exitOther"],
     [CleanRun EXCEPT !.diff = "differ"],
     [CleanRun EXCEPT !.diff = "differ", !.rawHasMissing = TRUE, !.outHasMissing = TRUE]}

\* A clean run and a run that hits its deadline.
TwoOutcomes == {CleanRun, [CleanRun EXCEPT !.deadline = TRUE]}

\* runTestCase up to the start of qemu.  A verdict other than "Success" names
\* the error handed back in testRunError: "IOError" (failed to create raw
\* file, failed to write .raw / .out / diff), "Timeout" (qemu start timed out,
\* timed out), "LaunchFailure" (failed to start qemu), "EmptyOutput" (empty
\* .raw file), "Crash" (qemu failed, qemu stderr), "Unimplemented" (missing
\* code), "DiffMismatch" (diff found), "ExitCode" (failed with code),
\* "WaitError" (failed), "FailedTest" (failed test).  "ok" means: go on.
LaunchVerdict(o) ==
    CASE o.start = "createErr" -> "IOError"
      [] o.start = "ctxDone" -> "Timeout"
      [] o.start = "startErr" -> "LaunchFailure"
      [] OTHER -> "ok"

\* Variant of CaptureVerdict without the empty check.
CaptureVerdictNoEmptyCheck(o) ==
    IF o.io = "copyErr" THEN "IOError" ELSE "ok"

\* runTestCase: stream stdout to the .raw file, then the empty check.
CaptureVerdict(o) ==
    IF o.io = "copyErr" THEN "IOError"
    ELSE IF o.rawLength = 0 THEN "EmptyOutput"
    ELSE "ok"

\* runTestCase after qemuCmd.Wait: the .out file, the deadline, the exit
\* code and stderr.
ExitVerdict(o) ==
    IF o.io = "outErr" THEN "IOError"
    ELSE IF o.deadline THEN "Timeout"
    ELSE IF o.wait = "exitOther" THEN "Crash"
    ELSE IF o.stderrLen > 0 THEN "Crash"
    ELSE "ok"

\* runTestCase from the diff on.  diff prints nothing when it exits 0, so
\* diffOut.Len() > 0 adds nothing to the last test.
DiffVerdict(o, resolved) ==
    IF o.diff = "differ"
    THEN IF o.io = "diffErr" THEN "IOError"
         ELSE IF o.rawHasMissing THEN "Unimplemented"
         ELSE "DiffMismatch"
    ELSE IF resolved THEN "Panic"
    ELSE IF o.wait = "exit1" THEN "Success"
    ELSE IF o.wait = "exitOther" THEN "ExitCode"
    ELSE IF o.wait = "error" THEN "WaitError"
    ELSE IF o.rawHasFail THEN "FailedTest"
    ELSE "Success"

\* runTestCase: the message handed back for the outcome o, given the copy's
\* resolved flag.
RunVerdict(o, resolved) ==
    IF LaunchVerdict(o) # "ok" THEN LaunchVerdict(o)
    ELSE IF CaptureVerdict(o) # "ok" THEN CaptureVerdict(o)
    ELSE IF ExitVerdict(o) # "ok" THEN ExitVerdict(o)
    ELSE DiffVerdict(o, resolved)

\* ---------------------------------------------------------------- the filter
\* The characters of a captured output: "*", a character that is neither "*"
\* nor part of an escape sequence ("a"), one whole escape sequence as ansiRe
\* matches it ("esc"), and the newline ("nl").
Chars == {"*", "a", "esc", "nl"}

\* The captured outputs of at most MaxLen characters.
Texts == UNION {[1 .. n -> Chars] : n \in 0 .. MaxLen}

\* strings.Split(s, "\n"), with line the characters of the line begun.
RECURSIVE SplitAt(_, _)
SplitAt(s, line) ==
    IF s = <<>> THEN <<line>>
    ELSE IF Head(s) = "nl" THEN <<line>> \o SplitAt(Tail(s), <<>>)
    ELSE SplitAt(Tail(s), Append(line, Head(s)))

Split(s) == SplitAt(s, <<>>)

\* Variant of StripAnsi that removes nothing.
StripAnsiNothing(line) == line

\* ansiRe.ReplaceAllString(line, "")
StripAnsi(line) ==
    LET NotEsc(ch) == ch # "esc"
    IN  SelectSeq(line, NotEsc)

\* strings.HasPrefix(s, prefix)
HasPrefix(s, prefix) ==
    Len(s) >= Len(prefix) /\ SubSeq(s, 1, Len(prefix)) = prefix

\* The loop of runTestCase over the lines ls, from line k on, with out the
\* filtered output so far.
RECURSIVE FilterFrom(_, _, _)
FilterFrom(ls, k, out) ==
    IF k > Len(ls) THEN out
    ELSE LET line == StripAnsi(ls[k])
         IN  FilterFrom(ls, k + 1,
                        IF HasPrefix(line, <<"*", "*", "*">>)
                        THEN out \o line \o <<"nl">>
                        ELSE out)

\* ---------------------------------------------------------------- scheduler
\* First loop of tryStartExecutors.
ThreadsLeft(tc, mt) == mt - RunningCount(tc)

\* Second loop of tryStartExecutors, from index i on.
RECURSIVE ScanFrom(_, _, _, _)
ScanFrom(tc, i, threadsLeft, toStart) ==
    IF i >= Cardinality(DOMAIN tc) THEN toStart
    ELSE LET waiting == tc[i].state = TestStateWaiting
             ts == IF waiting THEN Append(toStart, i) ELSE toStart
             tl == IF waiting THEN threadsLeft - 1 ELSE threadsLeft
         IN  IF tl = 0 THEN ts ELSE ScanFrom(tc, i + 1, tl, ts)

\* Variant of ToStart whose scan starts at index 1 and so never admits test 0.
ToStartSkipFirst(tc, threadsLeft) == ScanFrom(tc, 1, threadsLeft, <<>>)

ToStart(tc, threadsLeft) == ScanFrom(tc, 0, threadsLeft, <<>>)

\* ---------------------------------------------------------------- Update
\* resolveTestCase, applied to a test record.
ResolveTestCase(t) ==
    [t EXCEPT !.resolved = TRUE, !.running = FALSE,
              !.iterations = SubSeq(t.iterations, 1, t.currIter + 1)]

\* delayCmd(time.Millisecond, tea.Quit) added to the commands b.  Quit messages
\* are all alike and the first one processed ends the program, so one pending
\* copy stands for any number of them.
DelayQuit(b) == IF BagIn(QuitCmd, b) THEN b ELSE b (+) One(QuitCmd)

\* Variant of StopIterating without the time-cap clause.
StopIteratingNoCap(t, cap) == t.currIter = Len(t.iterations) - 1

\* The stop condition evaluated after a run verdict was recorded in t.  The
\* early-exit option is not part of it: Update never reads that option.
StopIterating(t, cap) ==
    \/ t.currIter = Len(t.iterations) - 1
    \/ TimeElapsed(t) > cap

\* Variant of NextIteration that records the start time and leaves the index.
NextIterationNoAdvance(t) ==
    [t EXCEPT !.iterations[t.currIter + 2].started = TRUE]

\* Variant of NextIteration that also keeps the running total of the durations
\* in the record of the first iteration.
NextIterationTotalInFirst(t) ==
    [t EXCEPT !.currIter = t.currIter + 1,
              !.iterations[t.currIter + 2].started = TRUE,
              !.iterations[1].timeSpanned = TimeElapsed(t)]

\* "run the next iteration": advance the index and record the start time.
NextIteration(t) ==
    [t EXCEPT !.currIter = t.currIter + 1,
              !.iterations[t.currIter + 2].started = TRUE]

\* Variant of ShouldExit that is true as soon as one test is resolved.
ShouldExitOnFirstResolved(tc) == \E i \in DOMAIN tc : tc[i].resolved

\* The tail of Update: when every test is resolved, cancel and quit.
ShouldExit(tc) == AllResolved(tc)

\* Update's result: the new tests, the commands returned, and the exit check.
Finish(tc, newCmds) ==
    /\ testCases' = tc
    /\ cancelled' = (cancelled \/ ShouldExit(tc))
    /\ cmds' = IF ShouldExit(tc) THEN DelayQuit(newCmds) ELSE newCmds

\* The state after initialModel and Init, for n tests of it iterations each.
\* e says what can happen in the run: the outcomes a run can have
\* (outcomes), how long an iteration can take (durs), the tests whose build
\* can fail (buildFail), whether the user presses a quit key (keys), whether the
\* loop can process a message between the two loops of a scheduler goroutine
\* (preempt), the tests that have a .diff file left by an earlier invocation
\* (stale), and whether the process runs in the Makefile's directory
\* (cwdIsDir).
StartTests(n, mt, it, cap, ee, e) ==
    /\ maxThreads = mt
    /\ timeCap = cap
    /\ numIter = it
    /\ earlyExit = ee
    /\ env = e
    /\ testCases = [i \in 0 .. (n - 1) |-> NewTest(it)]
    /\ quitting = FALSE
    /\ err = "nil"
    /\ cancelled = FALSE
    /\ cmds = One(DepsCmd)
    /\ msgs = EmptyBag
    /\ exited = FALSE
    /\ panicked = FALSE
    /\ diffFile = e.stale

\* The same, with no output captured yet.
Start(n, mt, it, cap, ee, e) ==
    /\ StartTests(n, mt, it, cap, ee, e)
    /\ output = <<>>
    /\ lines = <<>>
    /\ newOutput = <<>>

\* makeDependencies succeeded; Update(startBuildingTests).
UpdateStartBuildingTests ==
    /\ ~exited
    /\ BagIn(DepsCmd, cmds)
    /\ Finish(testCases, (cmds (-) One(DepsCmd)) (+) One(SchedCmd))
    /\ UNCHANGED <<config, capture, diffFile, quitting, err, msgs, exited, panicked>>

\* Variant of UpdateErrMsg that sets the error and neither cancels nor quits.
UpdateErrMsgNoCancel ==
    /\ ~exited
    /\ BagIn(DepsCmd, cmds)
    /\ err' = IF err = "nil" THEN "make error" ELSE err
    /\ cmds' = cmds (-) One(DepsCmd)
    /\ UNCHANGED <<config, capture, diffFile, testCases, quitting, cancelled, msgs, exited, panicked>>

\* makeDependencies failed; Update(errMsg).
UpdateErrMsg ==
    /\ ~exited
    /\ BagIn(DepsCmd, cmds)
    /\ err' = IF err = "nil" THEN "make error" ELSE err
    /\ cancelled' = TRUE
    /\ cmds' = DelayQuit(cmds (-) One(DepsCmd))
    /\ UNCHANGED <<config, capture, diffFile, testCases, quitting, msgs, exited, panicked>>

\* tryStartExecutors, first loop: count the running tests.  When the goroutine
\* is not preempted between its loops, the second loop runs in the same step.
TryStartExecutorsCount ==
    /\ ~exited
    /\ BagIn(SchedCmd, cmds)
    /\ IF env.preempt
       THEN /\ cmds' = (cmds (-) One(SchedCmd))
                       (+) One([SchedCmd EXCEPT
                                  !.pc = "scan",
                                  !.threadsLeft = ThreadsLeft(testCases, maxThreads)])
            /\ UNCHANGED msgs
       ELSE /\ cmds' = cmds (-) One(SchedCmd)
            /\ msgs' = msgs (+) One(ToStart(testCases,
                                            ThreadsLeft(testCases, maxThreads)))
    /\ UNCHANGED <<config, capture, diffFile, testCases, quitting, err, cancelled, exited, panicked>>

\* tryStartExecutors, second loop: collect the waiting tests; return the message.
TryStartExecutorsScan ==
    /\ ~exited
    /\ \E c \in BagToSet(cmds) :
          /\ c.kind = "sched"
          /\ c.pc = "scan"
          /\ cmds' = cmds (-) One(c)
          /\ msgs' = msgs (+) One(ToStart(testCases, c.threadsLeft))
    /\ UNCHANGED <<config, capture, diffFile, testCases, quitting, err, cancelled, exited, panicked>>

Range(s) == {s[k] : k \in DOMAIN s}

\* buildTestCase, before it invokes make: os.Remove of "<name>.diff", a path
\* relative to the process's working directory.  runTestCase writes
\* "<name>.diff" under the Makefile's directory, so the file removed is the
\* one a run writes only when the two directories are the same.
RemoveDiff(files, ids) == IF env.cwdIsDir THEN files \ ids ELSE files

\* Update(buildTestMsg).  The first act of each build command it launches,
\* the removal of the test's .diff file, is taken in the same step.
UpdateBuildTestMsg ==
    /\ ~exited
    /\ \E m \in BagToSet(msgs) :
          /\ msgs' = msgs (-) One(m)
          /\ Finish([i \in Tests |->
                        IF i \in Range(m)
                        THEN [testCases[i] EXCEPT !.state = TestStateBuilding,
                                                  !.running = TRUE]
                        ELSE testCases[i]],
                    cmds (+) SetToBag({BuildCmd(i) : i \in Range(m)}))
          /\ diffFile' = RemoveDiff(diffFile, Range(m))
    /\ UNCHANGED <<config, capture, quitting, err, exited, panicked>>

\* buildTestCase: e.Run() returns an error, and the command hands back
\* testBuildErr, when make itself fails for the test i or when the context it
\* was given is cancelled (exec.CommandContext does not start make under a
\* cancelled context, and kills a make in flight).
BuildFails(i) == i \in env.buildFail \/ cancelled

\* Variant of UpdateTestBuildErr that also takes the message for a fatal
\* errMsg (testBuildErr embeds errMsg): sets the run-level error, cancels and
\* quits.
UpdateTestBuildErrFatal ==
    /\ ~exited
    /\ \E i \in {j \in Tests : BuildFails(j)} :
          /\ BagIn(BuildCmd(i), cmds)
          /\ LET t1 == [testCases[i] EXCEPT !.state = TestStateCompileFailure]
                 t2 == [ResolveTestCase(t1) EXCEPT !.err = "compile error"]
             IN  /\ testCases' = [testCases EXCEPT ![i] = t2]
                 /\ cmds' = DelayQuit(cmds (-) One(BuildCmd(i)))
    /\ err' = IF err = "nil" THEN "compile error" ELSE err
    /\ cancelled' = TRUE
    /\ UNCHANGED <<config, capture, diffFile, quitting, msgs, exited, panicked>>

\* buildTestCase failed; Update(testBuildErr).
UpdateTestBuildErr ==
    /\ ~exited
    /\ \E i \in {j \in Tests : BuildFails(j)} :
          /\ BagIn(BuildCmd(i), cmds)
          /\ LET t1 == [testCases[i] EXCEPT !.state = TestStateCompileFailure]
                 t2 == [ResolveTestCase(t1) EXCEPT !.err = "compile error"]
             IN  Finish([testCases EXCEPT ![i] = t2],
                        (cmds (-) One(BuildCmd(i))) (+) One(SchedCmd))
    /\ UNCHANGED <<config, capture, diffFile, quitting, err, msgs, exited, panicked>>

\* buildTestCase succeeded; Update(testBuildSuccess).
UpdateTestBuildSuccess ==
    /\ ~exited
    /\ \E i \in Tests :
          /\ BagIn(BuildCmd(i), cmds)
          /\ LET t0 == testCases[i]
                 t1 == [t0 EXCEPT !.state = TestStateRunning,
                                  !.iterations[t0.currIter + 1].started = TRUE]
             IN  Finish([testCases EXCEPT ![i] = t1],
                        (cmds (-) One(BuildCmd(i))) (+) One(RunCmd(i, t1)))
    /\ UNCHANGED <<config, capture, diffFile, quitting, err, msgs, exited, panicked>>

\* runTestCase writes the .diff file once diff has reported a difference; of
\* the verdicts it returns after that write succeeded, these are the two.
WritesDiff(kind) == kind \in {"Unimplemented", "DiffMismatch"}

\* The run command c returned the failing verdict kind after d time units;
\* Update(testRunError).
RunError(c, kind, d) ==
    /\ ~exited
    /\ BagIn(c, cmds)
    /\ c.kind = "run"
    /\ diffFile' = IF WritesDiff(kind) THEN diffFile \cup {c.id} ELSE diffFile
    /\ LET i == c.id
           t0 == testCases[i]
           t1 == [t0 EXCEPT !.iterations[t0.currIter + 1].passed = FALSE,
                            !.state = TestStateFailure,
                            !.iterations[t0.currIter + 1].timeSpanned = d]
       IN  IF StopIterating(t1, timeCap)
           THEN Finish([testCases EXCEPT
                          ![i] = [ResolveTestCase(t1) EXCEPT !.err = kind]],
                       (cmds (-) One(c)) (+) One(SchedCmd))
           ELSE Finish([testCases EXCEPT ![i] = NextIteration(t1)],
                       (cmds (-) One(c)) (+) One(RunCmd(i, NextIteration(t1))))
    /\ UNCHANGED <<config, capture, quitting, err, msgs, exited, panicked>>

\* The run commands in flight.
RunCmds == {c \in BagToSet(cmds) : c.kind = "run"}

\* The failing verdicts the runs of this configuration can produce.
Kinds == {RunVerdict(o, FALSE) : o \in env.outcomes} \ {"Success"}

\* runTestCase returned success; Update(testRunSuccess).  runTestCase reaches
\* its success returns only when its copy of the test is not resolved.
RunSuccess(c, d) ==
    /\ ~exited
    /\ BagIn(c, cmds)
    /\ c.kind = "run"
    /\ ~c.resolved
    /\ LET i == c.id
           t0 == testCases[i]
           t1 == [t0 EXCEPT !.iterations[t0.currIter + 1].passed = TRUE,
                            !.iterations[t0.currIter + 1].timeSpanned = d]
           t2 == ResolveTestCase(t1)
       IN  IF StopIterating(t1, timeCap)
           THEN Finish([testCases EXCEPT
                          ![i] = IF t2.state # TestStateFailure
                                 THEN [t2 EXCEPT !.state = TestStateSuccess]
                                 ELSE t2],
                       (cmds (-) One(c)) (+) One(SchedCmd))
           ELSE Finish([testCases EXCEPT ![i] = NextIteration(t1)],
                       (cmds (-) One(c)) (+) One(RunCmd(i, NextIteration(t1))))
    /\ UNCHANGED <<config, capture, diffFile, quitting, err, msgs, exited, panicked>>

\* runTestCase, given a resolved copy of the test, panics where it would go on
\* to its success returns; the deferred recover swallows the panic and the
\* command hands back no message.
RunPanics(c) ==
    /\ ~exited
    /\ BagIn(c, cmds)
    /\ c.kind = "run"
    /\ c.resolved
    /\ cmds' = cmds (-) One(c)
    /\ panicked' = TRUE
    /\ UNCHANGED <<config, capture, diffFile, testCases, quitting, err, cancelled, msgs, exited>>

\* The run command c ends with outcome o after d time units, and Update
\* processes the message it hands back, if any.
RunTestCase(c, o, d) ==
    LET v == RunVerdict(o, c.resolved)
    IN  IF v = "Panic" THEN RunPanics(c)
        ELSE IF v = "Success" THEN RunSuccess(c, d)
        ELSE RunError(c, v, d)

\* The verdicts runTestCase reaches for the command c on the outcomes in S.
Verdicts(c, S) == {RunVerdict(o, c.resolved) : o \in S}

\* The step of the run command c when its verdict is v: RunTestCase(c, o, d)
\* for any outcome o with that verdict.
Delivered(c, v, d) ==
    IF v = "Panic" THEN RunPanics(c)
    ELSE IF v = "Success" THEN RunSuccess(c, d)
    ELSE RunError(c, v, d)

\* runTestCase under a cancelled context: its own context derives from the
\* model's, so ctx.Err() is not nil at either test and the command hands back
\* "qemu start timed out" or "timed out", whatever the run did.
CtxVerdicts == IF cancelled THEN {"Timeout"} ELSE {}

\* Update(testRunError): some run command ends with a failing verdict.  The
\* step depends on the outcome only through the verdict, so the verdicts of
\* the outcomes are enumerated, not the outcomes.
UpdateTestRunError ==
    \E c \in RunCmds, d \in env.durs :
        \E v \in (Verdicts(c, env.outcomes) \ {"Success", "Panic"}) \cup CtxVerdicts :
            Delivered(c, v, d)

\* Update(testRunSuccess): some run command ends with the verdict Success.
UpdateTestRunSuccess ==
    \E c \in RunCmds, d \in env.durs :
        "Success" \in Verdicts(c, env.outcomes) /\ Delivered(c, "Success", d)

\* Some run command panics.
RunTestCasePanics ==
    \E c \in RunCmds :
        "Panic" \in Verdicts(c, env.outcomes) /\ Delivered(c, "Panic", 0)

\* Update(tea.KeyMsg) for "q", "esc", "ctrl+c".
UpdateKeyMsg ==
    /\ ~exited
    /\ env.keys
    /\ IF quitting
       THEN /\ exited' = TRUE
            /\ UNCHANGED <<quitting, cancelled, cmds>>
       ELSE /\ quitting' = TRUE
            /\ cancelled' = TRUE
            /\ cmds' = DelayQuit(cmds)
            /\ UNCHANGED exited
    /\ UNCHANGED <<config, capture, diffFile, testCases, err, msgs, panicked>>

\* The delayed tea.Quit is processed: the program ends.
TeaQuit ==
    /\ ~exited
    /\ BagIn(QuitCmd, cmds)
    /\ exited' = TRUE
    /\ UNCHANGED <<config, capture, diffFile, testCases, quitting, err, cancelled, cmds, msgs, panicked>>

Next ==
    \/ UpdateStartBuildingTests
    \/ UpdateErrMsg
    \/ TryStartExecutorsCount
    \/ TryStartExecutorsScan
    \/ UpdateBuildTestMsg
    \/ UpdateTestBuildErr
    \/ UpdateTestBuildSuccess
    \/ UpdateTestRunError
    \/ UpdateTestRunSuccess
    \/ RunTestCasePanics
    \/ UpdateKeyMsg
    \/ TeaQuit

\* Scheduling configurations: several tests, one iteration each.
InitSched ==
    \E n \in 1 .. MaxTests, mt \in 1 .. MaxThreads :
        Start(n, mt, 1, 0, FALSE,
              [outcomes |-> TwoOutcomes, durs |-> {0}, buildFail |-> 0 .. (n - 1),
               keys |-> TRUE, preempt |-> TRUE, stale |-> {}, cwdIsDir |-> TRUE])

\* Iteration configurations: one test, every verdict, duration, cap and flag.
InitIter ==
    \E it \in 1 .. MaxIter, cap \in 0 .. MaxCap, ee \in BOOLEAN :
        Start(1, 1, it, cap, ee,
              [outcomes |-> SomeOutcomes, durs |-> 0 .. MaxDur, buildFail |-> {0},
               keys |-> TRUE, preempt |-> TRUE, stale |-> {}, cwdIsDir |-> TRUE])

\* Mixed configurations: three tests on two threads, two iterations each.
InitMixed ==
        Start(3, 2, 2, 1, FALSE,
              [outcomes |-> TwoOutcomes, durs |-> {0, 2}, buildFail |-> {0, 1, 2},
               keys |-> FALSE, preempt |-> FALSE, stale |-> {}, cwdIsDir |-> TRUE])

\* Five tests on two threads, one iteration each; every build succeeds and no
\* key is pressed.
InitFive ==
    Start(5, 2, 1, 0, FALSE,
          [outcomes |-> TwoOutcomes, durs |-> {0}, buildFail |-> {}, keys |-> FALSE,
           preempt |-> FALSE, stale |-> {}, cwdIsDir |-> TRUE])

\* Classification configurations: one test, one iteration, every outcome; the
\* test has a .diff file left by an earlier invocation, and the process runs
\* in the Makefile's directory or elsewhere.
InitClassify ==
    \E here \in BOOLEAN :
        Start(1, 1, 1, 0, FALSE,
              [outcomes |-> Outcomes, durs |-> {0}, buildFail |-> {}, keys |-> FALSE,
               preempt |-> FALSE, stale |-> {0}, cwdIsDir |-> here])

Init == InitSched \/ InitIter \/ InitMixed

Spec == Init /\ [][Next]_vars

\* Every step but the user's: goroutines run, external processes end or hit
\* their deadline, and the loop takes the messages handed to it.
Progress ==
    \/ UpdateStartBuildingTests
    \/ UpdateErrMsg
    \/ TryStartExecutorsCount
    \/ TryStartExecutorsScan
    \/ UpdateBuildTestMsg
    \/ UpdateTestBuildErr
    \/ UpdateTestBuildSuccess
    \/ UpdateTestRunError
    \/ UpdateTestRunSuccess
    \/ RunTestCasePanics
    \/ TeaQuit

\* The scenario of three tests on two threads with one iteration each, where
\* only the build of test 1 can fail.
InitScenario ==
    Start(3, 2, 1, 1, FALSE,
          [outcomes |-> TwoOutcomes \cup {[CleanRun EXCEPT !.diff = "differ"]}, durs |-> {0},
           buildFail |-> {1},
           keys |-> TRUE, preempt |-> TRUE, stale |-> {}, cwdIsDir |-> TRUE])

\* Scheduling configurations in which no key is pressed and no scheduler
\* goroutine is preempted between its loops.
InitLive ==
    \E n \in 1 .. MaxTests, mt \in 1 .. MaxThreads :
        Start(n, mt, 1, 0, FALSE,
              [outcomes |-> TwoOutcomes, durs |-> {0}, buildFail |-> 0 .. (n - 1),
               keys |-> FALSE, preempt |-> FALSE, stale |-> {}, cwdIsDir |-> TRUE])

SpecLive == (InitLive \/ InitMixed \/ InitScenario) /\ [][Next]_vars /\ WF_vars(Progress)

SpecScenario == InitScenario /\ [][Next]_vars

SpecClassify == (InitClassify \/ InitScenario) /\ [][Next]_vars

SpecFive == (InitFive \/ InitSched) /\ [][Next]_vars

\* Abort configurations: one or two tests whose builds cannot fail by
\* themselves and whose runs are all clean; the user may press a quit key.
InitAbort ==
    \E n \in 1 .. 2, it \in 1 .. 2 :
        Start(n, 1, it, 0, FALSE,
              [outcomes |-> {CleanRun}, durs |-> {0}, buildFail |-> {}, keys |-> TRUE,
               preempt |-> FALSE, stale |-> {}, cwdIsDir |-> TRUE])

SpecAbort == (InitAbort \/ InitSched) /\ [][Next]_vars

\* Six tests on two threads, one iteration each, up to the end of the first
\* run: only the builds of tests 0, 1 and 2 can fail, no run has ended yet and
\* no key is pressed.
InitSix ==
    Start(6, 2, 1, 0, FALSE,
          [outcomes |-> {}, durs |-> {0}, buildFail |-> {0, 1, 2}, keys |-> FALSE,
           preempt |-> FALSE, stale |-> {}, cwdIsDir |-> TRUE])

SpecSix == (InitSix \/ InitSched) /\ [][Next]_vars

\* runTestCase, "keep only the lines that start with ***": split the captured
\* output and filter its lines.
FilterOutput ==
    /\ lines = <<>>
    /\ lines' = Split(output)
    /\ newOutput' = FilterFrom(lines', 1, <<>>)
    /\ UNCHANGED <<config, testCases, quitting, err, cancelled, cmds, msgs, exited,
                   panicked, diffFile, output>>

\* Filter configurations: every captured output of at most MaxLen characters.
InitFilter ==
    /\ StartTests(1, 1, 1, 0, FALSE,
                  [outcomes |-> {CleanRun}, durs |-> {0}, buildFail |-> {}, keys |-> FALSE,
                   preempt |-> FALSE, stale |-> {}, cwdIsDir |-> TRUE])
    /\ output \in Texts
    /\ lines = <<>>
    /\ newOutput = <<>>

NextFilter == FilterOutput

SpecFilter == InitFilter /\ [][NextFilter]_vars

\* C1: in every reachable state the number of tests whose running flag is
\* true is at most maxThreads.
C1_RunningAtMostMaxThreads == RunningCount(testCases) <= maxThreads

\* The number of build and run commands of test i in the bag b.
OpsIn(b, i) ==
    LET S == {c \in BagToSet(b) : c.kind \in {"build", "run"} /\ c.id = i}
    IN  BagCardinality([c \in S |-> CopiesIn(c, b)])

\* The build and run commands of test i that are in flight.
OpsInFlight(i) == OpsIn(cmds, i)

\* This step launches no run command for test i.
NoRunLaunched(i) ==
    \A r \in BagToSet(cmds') :
        (r.kind = "run" /\ r.id = i) => CopiesIn(r, cmds') <= CopiesIn(r, cmds)

\* C2: for every test, at most one launched build or run operation has not yet
\* had its completion message processed.
C2_OneOperationPerTest == \A i \in Tests : OpsInFlight(i) <= 1

\* The edges of the test lifecycle.
LifecycleEdges ==
    { <<TestStateWaiting, TestStateBuilding>>,
      <<TestStateBuilding, TestStateCompileFailure>>,
      <<TestStateBuilding, TestStateRunning>>,
      <<TestStateRunning, TestStateRunning>>,
      <<TestStateRunning, TestStateSuccess>>,
      <<TestStateRunning, TestStateFailure>> }

\* C3: every change of a test's state follows one of the lifecycle edges.
C3_OnlyLifecycleEdges ==
    [][\A i \in Tests :
          testCases'[i].state # testCases[i].state
              => <<testCases[i].state, testCases'[i].state>> \in LifecycleEdges]_vars

\* C4: once a test is resolved it stays resolved, and its state, running,
\* currIter and iterations fields never change again.
C4_ResolvedIsFinal ==
    [][\A i \in Tests :
          testCases[i].resolved
              => /\ testCases'[i].resolved
                 /\ testCases'[i].state = testCases[i].state
                 /\ testCases'[i].running = testCases[i].running
                 /\ testCases'[i].currIter = testCases[i].currIter
                 /\ testCases'[i].iterations = testCases[i].iterations]_vars

\* C5 is reached: a run of more tests than threads has ended with every
\* test resolved.
C5_Witness ==
    /\ err = "nil" /\ ~quitting /\ ~panicked
    /\ NumTests > maxThreads
    /\ AllResolved(testCases) /\ exited

\* C5: unless the dependency build fails, the user quits, or a run command
\* hands back no message, every test is eventually resolved and the program
\* then ends.
C5_EventuallyAllResolved ==
    <>(err # "nil" \/ quitting \/ panicked \/ (AllResolved(testCases) /\ exited))

\* C6: with three tests A, B, C on two threads and one iteration each, A and
\* B are admitted first and C only after one of them resolved; never more than
\* two tests are running; and a run that ended by itself with A = Success and
\* B = CompileFailure ends with C in Success or Failure.
C6_Scenario ==
    LET A == testCases[0]
        B == testCases[1]
        C == testCases[2]
    IN  /\ RunningCount(testCases) <= 2
        /\ (A.state = TestStateWaiting) = (B.state = TestStateWaiting)
        /\ C.state # TestStateWaiting => (A.resolved \/ B.resolved)
        /\ ( /\ exited /\ ~quitting /\ err = "nil"
             /\ A.state = TestStateSuccess
             /\ B.state = TestStateCompileFailure )
           => C.state \in {TestStateSuccess, TestStateFailure}

\* C7: with the early-exit option enabled, a failing verdict on iteration k
\* resolves the test with at most k+1 recorded iterations and launches no
\* further run.
C7_EarlyExitStops ==
    [][\A c \in BagToSet(cmds), kind \in Kinds, d \in env.durs :
          (RunError(c, kind, d) /\ earlyExit)
              => /\ testCases'[c.id].resolved
                 /\ Len(testCases'[c.id].iterations) <= testCases[c.id].currIter + 1
                 /\ NoRunLaunched(c.id)]_vars

\* C8: with a positive time cap, a run verdict (failing or passing) after
\* which the test's recorded durations sum to more than the cap resolves the
\* test and launches no further run, whatever the iteration index is.
C8_TimeCapStops ==
    [][\A c \in BagToSet(cmds), d \in env.durs :
          ( /\ (\E kind \in Kinds : RunError(c, kind, d)) \/ RunSuccess(c, d)
            /\ timeCap > 0
            /\ TimeElapsed(testCases'[c.id]) > timeCap )
              => /\ testCases'[c.id].resolved
                 /\ NoRunLaunched(c.id)]_vars

\* C8 is reached: a test stopped by the time cap before its last configured
\* iteration, on a passing verdict.
C8_Witness ==
    \E i \in Tests :
        /\ timeCap > 0
        /\ testCases[i].resolved
        /\ testCases[i].state = TestStateSuccess
        /\ testCases[i].currIter < numIter - 1
        /\ TimeElapsed(testCases[i]) > timeCap

NothingRecorded(t) == \A k \in DOMAIN t.iterations : t.iterations[k] = NewIteration

\* C10: while the dependency build has not reported success, every test is
\* Waiting and no build or run command is in flight; and once it has failed,
\* the run-level error is set, the context is cancelled, the quit is pending
\* or done, and every test is still Waiting with nothing recorded.
C10_DependenciesFirst ==
    /\ (BagIn(DepsCmd, cmds) \/ err # "nil")
          => \A i \in Tests :
                /\ testCases[i].state = TestStateWaiting
                /\ NothingRecorded(testCases[i])
                /\ OpsInFlight(i) = 0
    /\ err # "nil" => (cancelled /\ (BagIn(QuitCmd, cmds) \/ exited))

\* C10 is reached: the dependency build failed and the program has ended.
C10_Witness == err # "nil" /\ exited /\ NumTests >= 2

\* This step processes a build failure or a failing run verdict.
TestFailureStep ==
    \/ UpdateTestBuildErr
    \/ \E c \in BagToSet(cmds), kind \in Kinds, d \in env.durs : RunError(c, kind, d)

\* C11: a step that processes a build failure or a failing run verdict leaves
\* the run-level error alone, and it cancels the context or schedules the quit
\* only if every test is resolved after it; and the program ends only with
\* every test resolved, with the run-level error set, or after a quit key.
C11_TestErrorsAreAbsorbed ==
    [][/\ TestFailureStep
          => /\ err' = err
             /\ (cancelled' # cancelled \/ BagIn(QuitCmd, cmds') # BagIn(QuitCmd, cmds))
                   => AllResolved(testCases')
             /\ exited' = exited
       /\ exited' => (AllResolved(testCases') \/ err' # "nil" \/ quitting')]_vars

\* C11 is reached: one test failed to build, another ended in Failure, a
\* third is still unresolved, and the run goes on.
C11_Witness ==
    /\ err = "nil" /\ ~cancelled /\ ~exited /\ ~quitting
    /\ \E i, j, k \in Tests :
          /\ testCases[i].state = TestStateCompileFailure /\ testCases[i].resolved
          /\ testCases[j].state = TestStateFailure /\ testCases[j].resolved
          /\ ~testCases[k].resolved

\* C12: a run that captured zero bytes on stdout is recorded as a failed
\* iteration and never moves the test to Success, whatever its exit code,
\* stderr and diff are; when qemu started and the .raw file was written, the
\* verdict is EmptyOutput.
C12_EmptyOutputFails ==
    [][\A c \in RunCmds, d \in env.durs :
          LET i == c.id
              k == testCases[i].currIter
              Empty == {o \in env.outcomes : o.rawLength = 0}
              Launched == {o \in Empty : o.start = "ok" /\ o.io # "copyErr"}
          IN  /\ \A v \in Verdicts(c, Empty) :
                    Delivered(c, v, d)
                        => /\ testCases'[i].iterations[k + 1].passed = FALSE
                           /\ testCases'[i].state = TestStateFailure
              /\ \A v \in Verdicts(c, Launched) :
                    Delivered(c, v, d) => v = "EmptyOutput"]_vars

\* C12 is reached: a test resolved on the verdict EmptyOutput.
C12_Witness ==
    \E i \in Tests :
        /\ testCases[i].resolved
        /\ testCases[i].err = "EmptyOutput"
        /\ testCases[i].state = TestStateFailure
        /\ ~testCases[i].iterations[testCases[i].currIter + 1].passed

\* The outcomes in which every file write worked, the context was not done
\* before the start, and qemu, once started, ended with an exit code.
PlainOutcomes ==
    {o \in env.outcomes :
        o.io = "ok" /\ o.start \in {"ok", "startErr"} /\ o.wait # "error"}

\* The verdicts the classification order allows for the outcome o.
InOrderVerdicts(o) ==
    IF o.start = "startErr" THEN {"LaunchFailure"}
    ELSE IF o.rawLength = 0 THEN {"EmptyOutput"}
    ELSE IF o.deadline THEN {"Timeout"}
    ELSE IF o.wait = "exitOther" THEN {"Crash"}
    ELSE IF o.stderrLen > 0 THEN {"Crash"}
    ELSE IF o.diff = "differ" THEN {"Unimplemented", "DiffMismatch"}
    ELSE {"Success"}

\* C13: for every outcome, the verdict of a run is the first that applies in
\* the order launch failure, empty stdout, deadline, exit code neither 0 nor
\* 1, non-empty stderr, diff (Unimplemented or DiffMismatch), else Success;
\* a failing verdict records a failed iteration and Success a passed one.
C13_VerdictOrder ==
    [][\A c \in RunCmds, d \in env.durs :
          LET i == c.id
              k == testCases[i].currIter
              Pairs == {<<RunVerdict(o, c.resolved), InOrderVerdicts(o)>> : o \in PlainOutcomes}
          IN  ~c.resolved
                => \A p \in Pairs :
                      Delivered(c, p[1], d)
                          => /\ p[1] \in p[2]
                             /\ testCases'[i].iterations[k + 1].passed
                                    = (p[1] = "Success")]_vars

\* C14: a run that started, printed, ended in time with exit code 0 or 1,
\* wrote nothing to stderr and whose filtered output equals the .ok file has
\* the verdict Success and records a passed iteration, whatever else its raw
\* output contains.
C14_CleanRunSucceeds ==
    [][\A c \in RunCmds, d \in env.durs :
          LET i == c.id
              k == testCases[i].currIter
              Clean == {o \in env.outcomes :
                          /\ o.start = "ok" /\ o.io = "ok" /\ o.rawLength > 0
                          /\ ~o.deadline /\ o.wait \in {"nil", "exit1"}
                          /\ o.stderrLen = 0 /\ o.diff = "same"}
          IN  ~c.resolved
                => \A v \in Verdicts(c, Clean) :
                      Delivered(c, v, d)
                          => /\ v = "Success"
                             /\ testCases'[i].iterations[k + 1].passed]_vars

\* C15: once the run-level error is set or a quit key was processed, no test
\* changes from Waiting to Building and no build or run command is launched.
C15_NoAdmissionAfterCancel ==
    [][(err # "nil" \/ quitting)
          => \A i \in Tests :
                /\ ~(testCases[i].state = TestStateWaiting
                       /\ testCases'[i].state = TestStateBuilding)
                /\ \A r \in BagToSet(cmds') :
                      (r.kind \in {"build", "run"} /\ r.id = i)
                          => CopiesIn(r, cmds') <= CopiesIn(r, cmds)]_vars

\* C16: the step that processes a failed build leaves the test in
\* CompileFailure with resolved = TRUE and running = FALSE, and no build or run
\* command is launched for a test that is in CompileFailure.
C16_CompileFailureIsFinal ==
    [][\A i \in Tests :
          /\ (BagIn(BuildCmd(i), cmds) /\ UpdateTestBuildErr
                 /\ testCases'[i] # testCases[i])
                => /\ testCases'[i].state = TestStateCompileFailure
                   /\ testCases'[i].resolved
                   /\ ~testCases'[i].running
          /\ testCases[i].state = TestStateCompileFailure
                => \A r \in BagToSet(cmds') :
                      (r.kind \in {"build", "run"} /\ r.id = i)
                          => CopiesIn(r, cmds') <= CopiesIn(r, cmds)]_vars

\* The terminal states of the lifecycle.
TerminalStates == {TestStateCompileFailure, TestStateSuccess, TestStateFailure}

\* C17: a test's state is terminal if and only if the test is resolved.
C17_TerminalIffResolved ==
    \A i \in Tests : (testCases[i].state \in TerminalStates) = testCases[i].resolved

\* The iterations of t whose verdict has been recorded: those before the
\* current one, and the current one too once the test is resolved.
Recorded(t) ==
    {k \in DOMAIN t.iterations : k <= t.currIter \/ (t.resolved /\ k = t.currIter + 1)}

\* C18: a step that processes a failing verdict stores its detail in the
\* test's err, and whenever a test is in Failure or has a recorded failed
\* iteration its err is set.
C18_LastErrorIsSet ==
    [][/\ \A c \in BagToSet(cmds), kind \in Kinds, d \in env.durs :
             RunError(c, kind, d) => testCases'[c.id].err = kind
       /\ \A i \in Tests :
             (\/ testCases'[i].state = TestStateFailure
              \/ \E k \in Recorded(testCases'[i]) : ~testCases'[i].iterations[k].passed)
                 => testCases'[i].err # "nil"]_vars

\* C19: a resolved test in Success has only passed iterations, a resolved
\* test in Failure has a failed one, and a test that resolves on a run verdict
\* ends in one of the two.
C19_SuccessIffAllPassed ==
    [][/\ \A i \in Tests :
             LET t == testCases'[i]
             IN  t.resolved
                   => /\ t.state = TestStateSuccess
                           => \A k \in DOMAIN t.iterations : t.iterations[k].passed
                      /\ t.state = TestStateFailure
                           => \E k \in DOMAIN t.iterations : ~t.iterations[k].passed
       /\ \A c \in RunCmds, v \in Kinds \cup {"Success"}, d \in env.durs :
             (Delivered(c, v, d) /\ ~testCases[c.id].resolved /\ testCases'[c.id].resolved)
                 => testCases'[c.id].state \in {TestStateSuccess, TestStateFailure}]_vars

\* C20: for every resolved test the length of its iterations equals the
\* number of its iterations that were started.
C20_IterationsAreTheAttempts ==
    \A i \in Tests :
        testCases[i].resolved
            => Len(testCases[i].iterations)
                 = Cardinality({k \in DOMAIN testCases[i].iterations :
                                   testCases[i].iterations[k].started})

\* The ids of the Waiting tests of tc.
WaitingIds(tc) == {i \in DOMAIN tc : tc[i].state = TestStateWaiting}

\* C21: a scheduler invocation on the current tests, with available =
\* maxThreads - (number of running tests), selects the
\* min(max(available, 0), number of Waiting tests) Waiting tests with the
\* lowest ids, in ascending order; none when available is zero or negative.
C21_SchedulerSelectsLowestWaiting ==
    LET available == maxThreads - RunningCount(testCases)
        sel == ToStart(testCases, ThreadsLeft(testCases, maxThreads))
        W == WaitingIds(testCases)
        cap == IF available > 0 THEN available ELSE 0
        k == IF cap < Cardinality(W) THEN cap ELSE Cardinality(W)
    IN  /\ Len(sel) = k
        /\ \A a, b \in 1 .. Len(sel) : a < b => sel[a] < sel[b]
        /\ Range(sel) \subseteq W
        /\ \A i \in W \ Range(sel), j \in Range(sel) : j < i

\* The scheduler invocations in flight in the bag b.
SchedIn(b) ==
    LET S == {c \in BagToSet(b) : c.kind = "sched"}
    IN  BagCardinality([c \in S |-> CopiesIn(c, b)])

\* C22: after the dependency build succeeded and without cancellation, in
\* every state where no scheduler invocation is in flight, no admit message is
\* pending and some test is Waiting, the number of running tests equals
\* maxThreads; and every step that resolves a test launches exactly one
\* scheduler invocation.
C22_FreedCapacityIsReused ==
    [][/\ ( /\ ~BagIn(DepsCmd, cmds) /\ err = "nil" /\ ~cancelled /\ ~exited
            /\ SchedIn(cmds) = 0 /\ msgs = EmptyBag
            /\ WaitingIds(testCases) # {} )
          => RunningCount(testCases) = maxThreads
       /\ (\E i \in Tests : ~testCases[i].resolved /\ testCases'[i].resolved)
          => SchedIn(cmds') = SchedIn(cmds) + 1]_vars

\* C23: absent a run-level error and a quit key, a step signals cancellation
\* or issues the quit command only if every test is resolved after it; and
\* while some test is unresolved the context is not cancelled, no quit is
\* pending and the program has not ended.
C23_ExitOnlyWhenAllResolved ==
    [][/\ (err' = "nil" /\ ~quitting')
          => /\ ((cancelled' /\ ~cancelled) \/ (BagIn(QuitCmd, cmds') /\ ~BagIn(QuitCmd, cmds)))
                   => AllResolved(testCases')
             /\ ~AllResolved(testCases')
                   => (~cancelled' /\ ~BagIn(QuitCmd, cmds') /\ ~exited')]_vars

\* C23 is reached: a run of several tests, without error or quit key, has
\* cancelled its context and issued the quit once its last test resolved.
C23_Witness ==
    /\ err = "nil" /\ ~quitting
    /\ NumTests >= 2
    /\ AllResolved(testCases)
    /\ cancelled /\ BagIn(QuitCmd, cmds) /\ ~exited

\* C24: when the run command of a test that is resolved at that time ends,
\* whatever its verdict, the program ends and the test is left as it was: no
\* verdict is applied to a resolved test.
C24_ResolvedTestAborts ==
    [][\A c \in RunCmds, d \in env.durs :
          \A v \in Verdicts(c, env.outcomes) :
              (Delivered(c, v, d) /\ testCases[c.id].resolved)
                  => (exited' /\ testCases' = testCases)]_vars

\* C25: every test's currIter is 0 while the test is Waiting, lies in 0 .. numIter - 1 and
\* indexes its iterations; it never decreases, and it grows, by exactly 1,
\* only in a step that processes a run verdict of that test after which the
\* continuation policy (no early exit on a failure, not the last configured
\* iteration, a positive time cap not exceeded) says to continue.
C25_IterationIndexInRange ==
    [][\A i \in Tests :
             LET t == testCases[i]
                 t2 == testCases'[i]
             IN  /\ t.state = TestStateWaiting => t.currIter = 0
                 /\ t2.currIter \in 0 .. (numIter - 1)
                 /\ t2.currIter + 1 \in DOMAIN t2.iterations
                 /\ t2.currIter >= t.currIter
                 /\ t2.currIter # t.currIter
                       => /\ t2.currIter = t.currIter + 1
                          /\ \E c \in RunCmds, v \in Kinds \cup {"Success"}, d \in env.durs :
                                /\ c.id = i
                                /\ Delivered(c, v, d)
                                /\ ~(earlyExit /\ v # "Success")
                                /\ t.currIter < numIter - 1
                                /\ ~(timeCap > 0 /\ TimeElapsed(t2) > timeCap)]_vars

\* C26: a step changes the record of an iteration of a test only at the
\* test's currIter, as it is before or after the step; the records of the
\* iterations before currIter stay in the sequence and are left as they are.
C26_OnlyCurrentIterationWritten ==
    [][\A i \in Tests :
          LET t == testCases[i]
              t2 == testCases'[i]
          IN  /\ \A k \in 1 .. t.currIter :
                    k \in DOMAIN t2.iterations /\ t2.iterations[k] = t.iterations[k]
              /\ \A k \in DOMAIN t2.iterations :
                    t2.iterations[k] # t.iterations[k]
                        => k \in {t.currIter + 1, t2.currIter + 1}]_vars

\* C26 is reached: a test resolved on its third iteration, with a passed
\* first iteration of duration 1 and a failed second one still on record.
C26_Witness ==
    \E i \in Tests :
        /\ testCases[i].resolved
        /\ testCases[i].currIter = 2
        /\ testCases[i].iterations[1] = [passed |-> TRUE, started |-> TRUE, timeSpanned |-> 1]
        /\ ~testCases[i].iterations[2].passed
        /\ testCases[i].iterations[3].timeSpanned = 2

\* C27: with a time cap of zero and the early-exit option disabled, a run
\* verdict on an iteration that is not the last configured one leaves the test
\* unresolved and moves it to the next iteration, whatever the durations are;
\* so a test that resolves on a run verdict has run all numIter iterations.
C27_ZeroCapNeverStops ==
    [][(timeCap = 0 /\ ~earlyExit)
          => \A c \in RunCmds, v \in Kinds \cup {"Success"}, d \in env.durs :
                LET t == testCases[c.id]
                    t2 == testCases'[c.id]
                IN  (Delivered(c, v, d) /\ ~t.resolved)
                        => /\ t.currIter < numIter - 1
                                => (~t2.resolved /\ t2.currIter = t.currIter + 1)
                           /\ t2.resolved => Len(t2.iterations) = numIter]_vars

\* C28: whenever a test is in state Building, no .diff file of that test
\* exists at the place where a run writes it.
C28_NoDiffWhileBuilding ==
    \A i \in Tests : testCases[i].state = TestStateBuilding => i \notin diffFile

\* C29: of a run whose filtered output differs from the .ok file (it
\* started, printed, ended in time with exit code 0 or 1, wrote nothing to
\* stderr, and every file write worked): when the filtered output contains
\* the marker "*** Missing code at" the verdict is Unimplemented and no .diff
\* file is written, otherwise the verdict is DiffMismatch and the .diff file
\* is written; and no other run writes a .diff file.
C29_DiffWrittenOnlyOnMismatch ==
    [][\A c \in RunCmds, d \in env.durs :
          LET i == c.id
              Differ == {o \in env.outcomes :
                           /\ o.start = "ok" /\ o.io = "ok" /\ o.rawLength > 0
                           /\ ~o.deadline /\ o.wait \in {"nil", "exit1"}
                           /\ o.stderrLen = 0 /\ o.diff = "differ"}
              Pairs == {<<RunVerdict(o, c.resolved), o.outHasMissing>> : o \in Differ}
          IN  /\ \A p \in Pairs :
                    Delivered(c, p[1], d)
                        => IF p[2]
                           THEN p[1] = "Unimplemented" /\ (i \notin diffFile => i \notin diffFile')
                           ELSE p[1] = "DiffMismatch" /\ i \in diffFile'
              /\ \A v \in Verdicts(c, env.outcomes \ Differ) :
                    Delivered(c, v, d) => (i \notin diffFile => i \notin diffFile')]_vars

\* The line l without its escape sequences.
NoEscapes(l) ==
    LET Kept(ch) == ch # "esc"
    IN  SelectSeq(l, Kept)

\* The line l, without its escape sequences, begins with "***".
BeginsWithStars(l) ==
    LET e == NoEscapes(l)
    IN  Len(e) >= 3 /\ e[1] = "*" /\ e[2] = "*" /\ e[3] = "*"

\* The lines ls, each without its escape sequences and followed by a newline.
RECURSIVE Terminated(_)
Terminated(ls) ==
    IF ls = <<>> THEN <<>>
    ELSE NoEscapes(Head(ls)) \o <<"nl">> \o Terminated(Tail(ls))

\* C30: the filtered output consists of the captured lines that begin with
\* "***" once their escape sequences are removed, in their order, each
\* without its escape sequences and followed by one newline; the other lines
\* contribute nothing.
C30_FilterKeepsStarLines ==
    lines # <<>> => newOutput = Terminated(SelectSeq(lines, BeginsWithStars))

\* C30 is reached: an output was filtered in which two different lines are
\* kept, one of them with an escape sequence in front of its "***".
C30_Witness ==
    /\ lines # <<>>
    /\ \E j, k \in DOMAIN lines :
          /\ j < k
          /\ lines[j] # lines[k]
          /\ BeginsWithStars(lines[j]) /\ BeginsWithStars(lines[k])
          /\ Head(lines[j]) = "esc" \/ Head(lines[k]) = "esc"
    /\ newOutput = <<"*", "*", "*", "nl", "*", "*", "*", "nl">>

\* C31: a test's running flag is true exactly when the test has left Waiting
\* and is not resolved; the flag is set only in a step that processes an admit
\* message and cleared only in a step after which the test is resolved.
C31_RunningIffAdmittedUnresolved ==
    [][\A i \in Tests :
          LET t == testCases[i]
              t2 == testCases'[i]
          IN  /\ t2.running = (t2.state # TestStateWaiting /\ ~t2.resolved)
              /\ (~t.running /\ t2.running) => UpdateBuildTestMsg
              /\ (t.running /\ ~t2.running) => (~t.resolved /\ t2.resolved)]_vars

\* C32: a test is marked CompileFailure only when its own build invocation
\* failed, never because the global context was cancelled while its build was
\* in flight or about to be launched; and a step that records a failed
\* iteration is taken only for a run that can fail by itself, never for a run
\* the user's abort cancelled.
C32_CancelIsNotFailure ==
    [][/\ \A i \in Tests :
            (testCases[i].state # TestStateCompileFailure
               /\ testCases'[i].state = TestStateCompileFailure)
            => i \in env.buildFail
       /\ UpdateTestRunError => Kinds # {}]_vars

\* C32, its first half alone.
C32_CompileFailureOnlyFromBuild ==
    \A i \in Tests :
        testCases[i].state = TestStateCompileFailure => i \in env.buildFail

\* C32, its second half alone.
C32_AbortedRunNotFailed ==
    Kinds = {} => \A i \in Tests : testCases[i].state # TestStateFailure

====
